---- MODULE Spec2Model ----
(***************************************************************************)
(* Model of src/_src/extract_with_ocr.py: the statement-metadata scan,     *)
(* the transaction scanner and the MM/DD date resolver.                    *)
(*                                                                         *)
(* Python strings are TLA+ strings; a character is a string of length 1.   *)
(* Python's None is the empty tuple <<>> and a present value s is <<s>>,   *)
(* so that None and the string "None" stay different values.               *)
(***************************************************************************)
EXTENDS Integers, Sequences, FiniteSets, TLC

VARIABLES
    text,           \* the OCR text handed to the call
    period_from,    \* argument of extract_transactions / resolver (optional)
    period_to,      \* argument of extract_transactions / resolver (optional)
    pc,             \* position of the running call
    lines,          \* lines = [line.strip() for line in text.split('\n')]
    i,              \* cursor (0-based, as in the source)
    metadata,       \* the metadata dict of extract_statement_metadata
    year_from,      \* extract_transactions: int(period_from.split('-')[0])
    year_to,        \* extract_transactions: int(period_to.split('-')[0])
    booking_date_mm_dd,
    value_date_mm_dd,
    description_parts,
    amount,
    transactions,   \* the list extract_transactions returns
    mm_dd,          \* resolver call: the token argument
    resolved,       \* resolver call: the returned string (optional)
    blocks          \* history: one record per booking-date line taken, with
                    \* the line indices the block was built from

vars == <<text, period_from, period_to, pc, lines, i, metadata, year_from,
          year_to, booking_date_mm_dd, value_date_mm_dd, description_parts,
          amount, transactions, mm_dd, resolved, blocks>>

None == <<>>
Some(s) == <<s>>

(***************************************************************************)
(* Characters and Python string primitives                                 *)
(***************************************************************************)
Char(s, k) == SubSeq(s, k, k)

Digits == {"0", "1", "2", "3", "4", "5", "6", "7", "8", "9"}

\* the characters str.strip() and the regex class \s remove/accept
Whitespace == {" ", "\t", "\r"}

UpperCase == "ABCDEFGHIJKLMNOPQRSTUVWXYZ"
LowerCase == "abcdefghijklmnopqrstuvwxyz"

\* the lower-case letter of every upper-case letter
LowerOf == [c \in { Char(UpperCase, k) : k \in 1..26 } |->
               Char(LowerCase, CHOOSE k \in 1..26 : Char(UpperCase, k) = c)]

LowerChar(c) == IF c \in DOMAIN LowerOf THEN LowerOf[c] ELSE c

RECURSIVE Lower(_)
Lower(s) == IF s = "" THEN "" ELSE LowerChar(Char(s, 1)) \o Lower(Tail(s))

RECURSIVE LStrip(_)
LStrip(s) ==
    IF s # "" /\ Char(s, 1) \in Whitespace THEN LStrip(Tail(s)) ELSE s

RECURSIVE RStrip(_)
RStrip(s) ==
    IF s # "" /\ Char(s, Len(s)) \in Whitespace
    THEN RStrip(SubSeq(s, 1, Len(s) - 1))
    ELSE s

Strip(s) == RStrip(LStrip(s))

\* s.split(sep) for a one-character separator: always at least one part.
\* Computed by halving s, so that long texts do not nest deeply: the parts
\* of the two halves, with the part cut by the halving glued back together.
RECURSIVE Split(_, _)
Split(s, sep) ==
    IF Len(s) <= 1 THEN (IF s = sep THEN <<"", "">> ELSE <<s>>)
    ELSE
        LET m == Len(s) \div 2
            l == Split(SubSeq(s, 1, m), sep)
            r == Split(SubSeq(s, m + 1, Len(s)), sep)
        IN  SubSeq(l, 1, Len(l) - 1) \o <<l[Len(l)] \o r[1]>> \o Tail(r)

\* sep.join(parts), by halving as well
RECURSIVE Join(_, _)
Join(parts, sep) ==
    IF parts = <<>> THEN ""
    ELSE IF Len(parts) = 1 THEN parts[1]
    ELSE LET m == Len(parts) \div 2
         IN  Join(SubSeq(parts, 1, m), sep) \o sep
                \o Join(SubSeq(parts, m + 1, Len(parts)), sep)

\* needle in hay
Contains(hay, needle) ==
    LET h == hay IN
    \E k \in 1..(Len(h) - Len(needle) + 1) :
        SubSeq(h, k, k + Len(needle) - 1) = needle

AllDigits(s) == \A k \in 1..Len(s) : Char(s, k) \in Digits

DigitVal(c) == CHOOSE d \in 0..9 : Char("0123456789", d + 1) = c

\* int(s) for a non-empty string of decimal digits; -1 stands for ValueError
RECURSIVE IntOfDigits(_, _)
IntOfDigits(s, acc) ==
    IF s = "" THEN acc
    ELSE IntOfDigits(Tail(s), acc * 10 + DigitVal(Char(s, 1)))

ParseInt(s) == IF s # "" /\ AllDigits(s) THEN IntOfDigits(s, 0) ELSE -1

\* str(n) for n >= 0
RECURSIVE IntToStr(_)
IntToStr(n) ==
    IF n < 10 THEN Char("0123456789", n + 1)
    ELSE IntToStr(n \div 10) \o Char("0123456789", (n % 10) + 1)

\* f"{n:02d}" for n >= 0
Pad2(n) == IF n < 10 THEN "0" \o IntToStr(n) ELSE IntToStr(n)

\* truthiness of an optional string: None and "" are falsy
Truthy(opt) == opt # None /\ opt[1] # ""

\* [line.strip() for line in text.split('\n')]
StripLines(t) ==
    LET raw == Split(t, "\n") IN [k \in 1..Len(raw) |-> Strip(raw[k])]

(***************************************************************************)
(* Line classification                                                     *)
(***************************************************************************)
\* s[a-1:b] of Python (1-based, inclusive), cut off at the end of s
Sub(s, a, b) ==
    IF a > Len(s) THEN ""
    ELSE SubSeq(s, a, IF b > Len(s) THEN Len(s) ELSE b)

\* variant: re.search(r'\d{2}.\d{2}', line), unanchored and with the slash
\* left as a wildcard
IsDateToken_Unanchored(line) ==
    \E k \in 1..(Len(line) - 4) :
        \A j \in {0, 1, 3, 4} : Char(line, k + j) \in Digits

\* re.match(r'^\d{2}/\d{2}$', line)
IsDateToken(line) ==
    /\ Len(line) = 5
    /\ Char(line, 1) \in Digits
    /\ Char(line, 2) \in Digits
    /\ Char(line, 3) = "/"
    /\ Char(line, 4) \in Digits
    /\ Char(line, 5) \in Digits

RECURSIVE SkipWhile(_, _, _)
\* first position >= k of s whose character is not in class
SkipWhile(s, k, class) ==
    IF k <= Len(s) /\ Char(s, k) \in class THEN SkipWhile(s, k + 1, class)
    ELSE k

\* re.match(r'^[-+]?\s*[\d,]+\.\d{2}$', line): the four character classes
\* are disjoint, so the match is decided by one left-to-right pass
IsMoneyToken(line) ==
    LET a == IF line # "" /\ Char(line, 1) \in {"-", "+"} THEN 2 ELSE 1
        b == SkipWhile(line, a, Whitespace)
        c == SkipWhile(line, b, Digits \cup {","})
    IN  /\ c > b
        /\ Len(line) = c + 2
        /\ Char(line, c) = "."
        /\ Char(line, c + 1) \in Digits
        /\ Char(line, c + 2) \in Digits

PageMarkers ==
    {"Statement Page", "Branch number", "New balance", "Important notes",
     "German bank code"}

IsPageMarker(line) == line \in PageMarkers

\* \d{2}\.\d{2}\.\d{4}
IsDayMonthYear(s) ==
    /\ Len(s) = 10
    /\ \A k \in {1, 2, 4, 5, 7, 8, 9, 10} : Char(s, k) \in Digits
    /\ Char(s, 3) = "."
    /\ Char(s, 6) = "."

\* the regex from\s+(\d{2}\.\d{2}\.\d{4})\s+to\s+(\d{2}\.\d{2}\.\d{4})
\* with re.IGNORECASE, anchored at position k: the two groups, or <<>>.
\* \s+ is followed by a non-space class each time, so nothing backtracks.
PeriodMatchAt(line, k) ==
    LET a == k + 4
        b == SkipWhile(line, a, Whitespace)
        c == b + 10
        d == SkipWhile(line, c, Whitespace)
        e == d + 2
        f == SkipWhile(line, e, Whitespace)
    IN  IF /\ Lower(Sub(line, k, k + 3)) = "from"
           /\ b > a
           /\ IsDayMonthYear(Sub(line, b, b + 9))
           /\ d > c
           /\ Lower(Sub(line, d, d + 1)) = "to"
           /\ f > e
           /\ IsDayMonthYear(Sub(line, f, f + 9))
        THEN <<Sub(line, b, b + 9), Sub(line, f, f + 9)>>
        ELSE <<>>

SetMin(S) == CHOOSE x \in S : \A y \in S : x <= y

\* re.search(...): the leftmost match
PeriodSearch(line) ==
    LET ks == { k \in 1..Len(line) : PeriodMatchAt(line, k) # <<>> }
    IN  IF ks = {} THEN <<>> ELSE PeriodMatchAt(line, SetMin(ks))

\* variant: the parts joined in the order they were read
IsoOfDayMonthYear_Unswapped(g) ==
    LET d == Split(g, ".") IN d[3] \o "-" \o d[1] \o "-" \o d[2]

\* DD.MM.YYYY -> f"{d[2]}-{d[1]}-{d[0]}"
IsoOfDayMonthYear(g) ==
    LET d == Split(g, ".") IN d[3] \o "-" \o d[2] \o "-" \o d[1]

(***************************************************************************)
(* convert_mm_dd_to_full_date                                              *)
(***************************************************************************)
\* variant: the start month itself falls into the later year
YearFor_Strict(month, from_year, from_month, to_year) ==
    IF from_year = to_year THEN from_year
    ELSE IF month > from_month THEN from_year
    ELSE to_year

\* the year the resolver assigns to a token of the given month
YearFor(month, from_year, from_month, to_year) ==
    IF from_year = to_year THEN from_year
    ELSE IF month >= from_month THEN from_year
    ELSE to_year

\* variant: only period_from is tested before resolving
ConvertMmDdToFullDate_FromOnly(tok, pf, pt) ==
    IF tok = "" \/ ~Truthy(pf) THEN tok
    ELSE LET md == Split(tok, "/")
             f  == Split(pf[1], "-")
         IN  IntToStr(ParseInt(f[1])) \o "-" \o Pad2(ParseInt(md[1]))
                \o "-" \o Pad2(ParseInt(md[2]))

\* tok is a string; pf and pt are optional strings. A failed unpacking or
\* int() inside the try block returns the token unchanged.
ConvertMmDdToFullDate(tok, pf, pt) ==
    IF tok = "" \/ ~Truthy(pf) \/ ~Truthy(pt) THEN tok
    ELSE
        LET md == Split(tok, "/")
            f  == Split(pf[1], "-")
            t  == Split(pt[1], "-")
            parsed ==
                /\ Len(md) = 2
                /\ \A k \in 1..2 : ParseInt(md[k]) >= 0
                /\ Len(f) = 3
                /\ \A k \in 1..3 : ParseInt(f[k]) >= 0
                /\ Len(t) = 3
                /\ \A k \in 1..3 : ParseInt(t[k]) >= 0
        IN  IF ~parsed THEN tok
            ELSE
                LET month == ParseInt(md[1])
                    day   == ParseInt(md[2])
                    year  == YearFor(month, ParseInt(f[1]), ParseInt(f[2]),
                                     ParseInt(t[1]))
                IN  IntToStr(year) \o "-" \o Pad2(month) \o "-" \o Pad2(day)

(***************************************************************************)
(* extract_transactions, one action per step of its loops                  *)
(***************************************************************************)
txLocals == <<booking_date_mm_dd, value_date_mm_dd, description_parts, amount>>
otherCalls == <<metadata, mm_dd, resolved>>

\* history only: update the record of the block in progress
LastBlock == blocks[Len(blocks)]
SetLast(rec) == [blocks EXCEPT ![Len(blocks)] = rec]

\* variant: only a page marker ends the body
EndsBody_MarkerOnly(line) == IsPageMarker(line)

\* variant: only a date line ends the body
EndsBody_DateOnly(line) == IsDateToken(line)

\* lines 164 and 168: the two tests that break out of the body loop
EndsBody(line) == IsDateToken(line) \/ IsPageMarker(line)

\* variant: the description is not required
HasRequiredFields_AmountOnly(description, amt) == Truthy(amt)

\* line 188: if description and amount
HasRequiredFields(description, amt) == description # "" /\ Truthy(amt)

AtEnd == i >= Len(lines)
Cur == lines[i + 1]          \* lines[i] of the source (0-based cursor)

\* lines 125-137: split the text, read the years of the period, i = 0
TxEnter ==
    /\ pc = "tx_call"
    /\ lines' = StripLines(text)
    /\ year_from' = IF Truthy(period_from)
                    THEN Some(ParseInt(Split(period_from[1], "-")[1]))
                    ELSE None
    /\ year_to' = IF Truthy(period_to)
                  THEN Some(ParseInt(Split(period_to[1], "-")[1]))
                  ELSE None
    /\ i' = 0
    /\ transactions' = <<>>
    /\ pc' = "seek"
    /\ UNCHANGED <<text, period_from, period_to, txLocals, otherCalls, blocks>>

\* variant: the booking-date line is not consumed
SeekBookingDate_NoAdvance ==
    /\ pc = "seek"
    /\ ~AtEnd
    /\ IsDateToken(Cur)
    /\ booking_date_mm_dd' = Cur
    /\ pc' = "value"
    /\ blocks' = Append(blocks, [b |-> i, v |-> -1, a |-> -1, end |-> -1,
                                 kept |-> FALSE])
    /\ UNCHANGED <<text, period_from, period_to, lines, i, year_from, year_to,
                   value_date_mm_dd, description_parts, amount, transactions,
                   otherCalls>>

\* lines 142-144: the line at the cursor is a booking date
SeekBookingDate ==
    /\ pc = "seek"
    /\ ~AtEnd
    /\ IsDateToken(Cur)
    /\ booking_date_mm_dd' = Cur
    /\ i' = i + 1
    /\ pc' = "value"
    /\ blocks' = Append(blocks, [b |-> i, v |-> -1, a |-> -1, end |-> -1,
                                 kept |-> FALSE])
    /\ UNCHANGED <<text, period_from, period_to, lines, year_from, year_to,
                   value_date_mm_dd, description_parts, amount, transactions,
                   otherCalls>>

\* lines 199-200: any other line is stepped over
SeekSkip ==
    /\ pc = "seek"
    /\ ~AtEnd
    /\ ~IsDateToken(Cur)
    /\ i' = i + 1
    /\ UNCHANGED <<text, period_from, period_to, pc, lines, year_from, year_to,
                   txLocals, transactions, otherCalls, blocks>>

\* variant: every line that is not a date is skipped before the value date
SkipBlank_NonDate ==
    /\ pc = "value"
    /\ ~AtEnd
    /\ ~IsDateToken(Cur)
    /\ i' = i + 1
    /\ UNCHANGED <<text, period_from, period_to, pc, lines, year_from, year_to,
                   txLocals, transactions, otherCalls, blocks>>

\* lines 147-148: blank lines before the value date
SkipBlank ==
    /\ pc = "value"
    /\ ~AtEnd
    /\ Cur = ""
    /\ i' = i + 1
    /\ UNCHANGED <<text, period_from, period_to, pc, lines, year_from, year_to,
                   txLocals, transactions, otherCalls, blocks>>

\* variant: an abandoned block sends the cursor back to its booking-date line
AbandonBlock_Rewind ==
    /\ pc = "value"
    /\ IF AtEnd THEN TRUE ELSE Cur # "" /\ ~IsDateToken(Cur)
    /\ pc' = "seek"
    /\ i' = LastBlock.b
    /\ UNCHANGED <<text, period_from, period_to, lines, year_from, year_to,
                   txLocals, transactions, otherCalls, blocks>>

\* lines 150-151: no value date follows; continue the outer loop
AbandonBlock ==
    /\ pc = "value"
    /\ IF AtEnd THEN TRUE ELSE Cur # "" /\ ~IsDateToken(Cur)
    /\ pc' = "seek"
    /\ UNCHANGED <<text, period_from, period_to, lines, i, year_from, year_to,
                   txLocals, transactions, otherCalls, blocks>>

\* lines 153-158: the value date; the body starts empty
TakeValueDate ==
    /\ pc = "value"
    /\ ~AtEnd
    /\ IsDateToken(Cur)
    /\ value_date_mm_dd' = Cur
    /\ i' = i + 1
    /\ description_parts' = <<>>
    /\ amount' = None
    /\ pc' = "body"
    /\ blocks' = SetLast([LastBlock EXCEPT !.v = i])
    /\ UNCHANGED <<text, period_from, period_to, lines, year_from, year_to,
                   booking_date_mm_dd, transactions, otherCalls>>

\* variant: the line that ends the body is consumed
BodyEnd_Consume ==
    /\ pc = "body"
    /\ IF AtEnd THEN TRUE ELSE EndsBody(Cur)
    /\ pc' = "save"
    /\ i' = IF AtEnd THEN i ELSE i + 1
    /\ UNCHANGED <<text, period_from, period_to, lines, year_from, year_to,
                   txLocals, transactions, otherCalls, blocks>>

\* lines 160-169: the body ends at the end of the text, at a date line or at
\* a page marker; the cursor stays where it is
BodyEnd ==
    /\ pc = "body"
    /\ IF AtEnd THEN TRUE ELSE EndsBody(Cur)
    /\ pc' = "save"
    /\ UNCHANGED <<text, period_from, period_to, lines, i, year_from, year_to,
                   txLocals, transactions, otherCalls, blocks>>

\* variant: the body is left as soon as the amount has been read
BodyAmount_Break ==
    /\ pc = "body"
    /\ ~AtEnd
    /\ ~EndsBody(Cur)
    /\ IsMoneyToken(Cur)
    /\ amount' = Some(Strip(Cur))
    /\ i' = i + 1
    /\ pc' = "save"
    /\ blocks' = SetLast([LastBlock EXCEPT !.a = i])
    /\ UNCHANGED <<text, period_from, period_to, lines, year_from, year_to,
                   booking_date_mm_dd, value_date_mm_dd, description_parts,
                   transactions, otherCalls>>

\* lines 173-177: a money line is stored as the amount
BodyAmount ==
    /\ pc = "body"
    /\ ~AtEnd
    /\ ~EndsBody(Cur)
    /\ IsMoneyToken(Cur)
    /\ amount' = Some(Strip(Cur))
    /\ i' = i + 1
    /\ blocks' = SetLast([LastBlock EXCEPT !.a = i])
    /\ UNCHANGED <<text, period_from, period_to, pc, lines, year_from, year_to,
                   booking_date_mm_dd, value_date_mm_dd, description_parts,
                   transactions, otherCalls>>

\* lines 180-183: any other line; non-empty ones join the description
BodyText ==
    /\ pc = "body"
    /\ ~AtEnd
    /\ ~EndsBody(Cur)
    /\ ~IsMoneyToken(Cur)
    /\ description_parts' = IF Cur # "" THEN Append(description_parts, Cur)
                            ELSE description_parts
    /\ i' = i + 1
    /\ UNCHANGED <<text, period_from, period_to, pc, lines, year_from, year_to,
                   booking_date_mm_dd, value_date_mm_dd, amount, transactions,
                   otherCalls, blocks>>

\* variant: a saved block is put at the front of the result
SaveTransaction_Prepend ==
    /\ pc = "save"
    /\ LET description == Strip(Join(description_parts, " "))
           keep == HasRequiredFields(description, amount)
       IN  /\ transactions' =
                IF keep
                THEN <<[booking_date |-> ConvertMmDdToFullDate(
                            booking_date_mm_dd, period_from, period_to),
                        value_date |-> ConvertMmDdToFullDate(
                            value_date_mm_dd, period_from, period_to),
                        description |-> description,
                        amount |-> amount[1]]>> \o transactions
                ELSE transactions
           /\ blocks' = SetLast([LastBlock EXCEPT !.end = i, !.kept = keep])
    /\ pc' = "seek"
    /\ UNCHANGED <<text, period_from, period_to, lines, i, year_from, year_to,
                   txLocals, otherCalls>>

\* lines 186-198: the block is saved when it has a description and an amount
SaveTransaction ==
    /\ pc = "save"
    /\ LET description == Strip(Join(description_parts, " "))
           keep == HasRequiredFields(description, amount)
       IN  /\ transactions' =
                IF keep
                THEN Append(transactions,
                       [booking_date |-> ConvertMmDdToFullDate(
                            booking_date_mm_dd, period_from, period_to),
                        value_date |-> ConvertMmDdToFullDate(
                            value_date_mm_dd, period_from, period_to),
                        description |-> description,
                        amount |-> amount[1]])
                ELSE transactions
           /\ blocks' = SetLast([LastBlock EXCEPT !.end = i, !.kept = keep])
    /\ pc' = "seek"
    /\ UNCHANGED <<text, period_from, period_to, lines, i, year_from, year_to,
                   txLocals, otherCalls>>

\* line 138 false, line 202: return transactions
TxReturn ==
    /\ pc = "seek"
    /\ AtEnd
    /\ pc' = "tx_done"
    /\ UNCHANGED <<text, period_from, period_to, lines, i, year_from, year_to,
                   txLocals, transactions, otherCalls, blocks>>

TxNext ==
    \/ TxEnter
    \/ SeekBookingDate
    \/ SeekSkip
    \/ SkipBlank
    \/ AbandonBlock
    \/ TakeValueDate
    \/ BodyEnd
    \/ BodyAmount
    \/ BodyText
    \/ SaveTransaction
    \/ TxReturn

(***************************************************************************)
(* extract_statement_metadata, one action per iteration of its for loop    *)
(***************************************************************************)
\* lines 79-86
NoMetadata ==
    [year |-> None, statement_date |-> None, period_from |-> None,
     period_to |-> None, opening_balance |-> None, closing_balance |-> None]

OpeningLookahead == 25
ClosingLookahead == 25

\* for j in range(i0 + 1, min(i0 + stop, len(lines))): the first line that
\* matches the balance pattern, stripped; None when the loop runs out
FirstBalance(ls, i0, stop) ==
    LET last == (IF i0 + stop < Len(ls) THEN i0 + stop ELSE Len(ls)) - 1
        js == { j \in (i0 + 1)..last : IsMoneyToken(ls[j + 1]) }
    IN  IF js = {} THEN None ELSE Some(Strip(ls[SetMin(js) + 1]))

\* variant: the statement date is the start of the period
WithPeriod_FromDate(md, line) ==
    LET m == PeriodSearch(line) IN
    IF m = <<>> THEN md
    ELSE [md EXCEPT !.period_from = Some(IsoOfDayMonthYear(m[1])),
                    !.period_to = Some(IsoOfDayMonthYear(m[2])),
                    !.statement_date = Some(IsoOfDayMonthYear(m[1])),
                    !.year = Some(Split(m[2], ".")[3])]

\* lines 92-100
WithPeriod(md, line) ==
    LET m == PeriodSearch(line) IN
    IF m = <<>> THEN md
    ELSE [md EXCEPT !.period_from = Some(IsoOfDayMonthYear(m[1])),
                    !.period_to = Some(IsoOfDayMonthYear(m[2])),
                    !.statement_date = Some(IsoOfDayMonthYear(m[2])),
                    !.year = Some(Split(m[2], ".")[3])]

\* variant: every label line with a balance after it overwrites the field
WithOpeningBalance_Overwrite(md, ls, i0) ==
    IF Contains(Lower(ls[i0 + 1]), "previous balance")
    THEN LET found == FirstBalance(ls, i0, OpeningLookahead) IN
         IF found = None THEN md ELSE [md EXCEPT !.opening_balance = found]
    ELSE md

\* lines 103-109
WithOpeningBalance(md, ls, i0) ==
    IF Contains(Lower(ls[i0 + 1]), "previous balance")
       /\ ~Truthy(md.opening_balance)
    THEN LET found == FirstBalance(ls, i0, OpeningLookahead) IN
         IF found = None THEN md ELSE [md EXCEPT !.opening_balance = found]
    ELSE md

\* variant: the line has to be the label and nothing else
WithClosingBalance_ExactLabel(md, ls, i0) ==
    IF Lower(ls[i0 + 1]) = "new balance" /\ ~Truthy(md.closing_balance)
    THEN LET found == FirstBalance(ls, i0, ClosingLookahead) IN
         IF found = None THEN md ELSE [md EXCEPT !.closing_balance = found]
    ELSE md

\* lines 112-118
WithClosingBalance(md, ls, i0) ==
    IF Contains(Lower(ls[i0 + 1]), "new balance")
       /\ ~Truthy(md.closing_balance)
    THEN LET found == FirstBalance(ls, i0, ClosingLookahead) IN
         IF found = None THEN md ELSE [md EXCEPT !.closing_balance = found]
    ELSE md

txState == <<year_from, year_to, booking_date_mm_dd, value_date_mm_dd,
             description_parts, amount, transactions, blocks>>

\* lines 79-88
MetaEnter ==
    /\ pc = "meta_call"
    /\ metadata' = NoMetadata
    /\ lines' = StripLines(text)
    /\ i' = 0
    /\ pc' = "meta_loop"
    /\ UNCHANGED <<text, period_from, period_to, txState, mm_dd, resolved>>

\* lines 90-118: one line of the text
MetaLine ==
    /\ pc = "meta_loop"
    /\ i < Len(lines)
    /\ metadata' = WithClosingBalance(
                       WithOpeningBalance(
                           WithPeriod(metadata, lines[i + 1]), lines, i),
                       lines, i)
    /\ i' = i + 1
    /\ UNCHANGED <<text, period_from, period_to, pc, lines, txState, mm_dd,
                   resolved>>

\* line 120
MetaReturn ==
    /\ pc = "meta_loop"
    /\ i >= Len(lines)
    /\ pc' = "meta_done"
    /\ UNCHANGED <<text, period_from, period_to, lines, i, metadata, txState,
                   mm_dd, resolved>>

MetaNext ==
    \/ MetaEnter
    \/ MetaLine
    \/ MetaReturn

(***************************************************************************)
(* Inputs of the transaction scanner: every text of at most MaxLines lines *)
(* over five kinds of line. The content of a line depends on its position, *)
(* so that no two non-blank lines of a text are equal.                     *)
(***************************************************************************)
MaxLines == 6

LineKinds == {"D", "B", "T", "M", "K"}

MarkerAt(p) ==
    CASE p % 5 = 0 -> "Statement Page"
      [] p % 5 = 1 -> "Branch number"
      [] p % 5 = 2 -> "New balance"
      [] p % 5 = 3 -> "Important notes"
      [] OTHER     -> "German bank code"

\* the raw (unstripped) line of kind k at position p
RawLine(k, p) ==
    LET d == Char("0123456789", (p % 10) + 1) IN
    CASE k = "D" -> IF p % 2 = 1 THEN "12/1" \o d ELSE " 01/0" \o d \o "\t"
      [] k = "B" -> IF p % 2 = 1 THEN "" ELSE "  "
      [] k = "T" -> IF p % 2 = 1 THEN "Card " \o d ELSE "\tpay " \o d \o " "
      [] k = "M" -> IF p % 2 = 1 THEN "- 4" \o d \o ".00"
                                 ELSE " +1,20" \o d \o ".50"
      [] OTHER   -> MarkerAt(p)

TextOfKinds(ks) == Join([p \in 1..Len(ks) |-> RawLine(ks[p], p)], "\n")

TxTexts == { TextOfKinds(ks) :
                ks \in UNION { [1..n -> LineKinds] : n \in 0..MaxLines } }

TxPeriods ==
    { <<None, None>>,
      <<Some("2020-12-15"), None>>,
      <<None, Some("2021-01-14")>>,
      <<Some("2020-12-15"), Some("2021-01-14")>> }

\* nothing has run yet
Fresh ==
    /\ lines = <<>>
    /\ i = 0
    /\ metadata = NoMetadata
    /\ year_from = None
    /\ year_to = None
    /\ booking_date_mm_dd = ""
    /\ value_date_mm_dd = ""
    /\ description_parts = <<>>
    /\ amount = None
    /\ transactions = <<>>
    /\ resolved = None
    /\ blocks = <<>>

\* a direct call extract_transactions(text, period_from, period_to)
TxInit ==
    /\ text \in TxTexts
    /\ \E p \in TxPeriods : period_from = p[1] /\ period_to = p[2]
    /\ pc = "tx_call"
    /\ mm_dd = ""
    /\ Fresh

TxSpec == TxInit /\ [][TxNext]_vars

(***************************************************************************)
(* Inputs of the metadata scan: at most MaxItems items, each a period      *)
(* line, a "previous balance" line, a "new balance" line, or a money line  *)
(* preceded by 0, 23 or 24 filler lines (the money line is then the 1st,   *)
(* the 24th or the 25th line after the item before it).                    *)
(***************************************************************************)
MaxItems == 4

MoneyGaps == {0, 23, 24}

MetaItems == {<<"P", 0>>, <<"L", 0>>, <<"N", 0>>} \cup
             { <<"M", g>> : g \in MoneyGaps }

Filler(q) ==
    CASE q % 3 = 0 -> ""
      [] q % 3 = 1 -> "EUR"
      [] OTHER     -> "5.00 EUR"

\* the raw line of item kind k when it is the p-th item
ItemLine(k, p) ==
    LET d == Char("0123456789", (p % 10) + 1)
        e == Char("0123456789", ((p + 1) % 10) + 1)
    IN
    CASE k = "P" -> IF p % 2 = 1
                    THEN "Account statement from 15.12.202" \o d
                            \o " to 14.01.202" \o e
                    ELSE " Period FROM  01.0" \o d \o ".202" \o d
                            \o " To\t28.0" \o e \o ".202" \o d \o "."
      [] k = "L" -> IF p % 2 = 1 THEN "Previous balance"
                                 ELSE "PREVIOUS BALANCE as at 0" \o d \o ".12."
      [] k = "N" -> IF p % 2 = 1 THEN " Your new Balance in EUR"
                                 ELSE "New balance"
      [] OTHER   -> IF p % 2 = 1 THEN "1,20" \o d \o ".00"
                                 ELSE " - 4" \o d \o ".50 "

RawLinesOfItem(it, p) ==
    [q \in 1..it[2] |-> Filler(q)] \o <<ItemLine(it[1], p)>>

RECURSIVE RawLinesOfItems(_, _)
RawLinesOfItems(its, p) ==
    IF p > Len(its) THEN <<>>
    ELSE RawLinesOfItem(its[p], p) \o RawLinesOfItems(its, p + 1)

TextOfItems(its) == Join(RawLinesOfItems(its, 1), "\n")

MetaTexts == { TextOfItems(its) :
                  its \in UNION { [1..n -> MetaItems] : n \in 0..MaxItems } }

\* a direct call extract_statement_metadata(text)
MetaInit ==
    /\ text \in MetaTexts
    /\ period_from = None
    /\ period_to = None
    /\ pc = "meta_call"
    /\ mm_dd = ""
    /\ Fresh

MetaSpec == MetaInit /\ [][MetaNext]_vars

(***************************************************************************)
(* Inputs of the resolver: tokens MM/DD with any month 00..MaxMonth, and   *)
(* periods that are absent, within one year, or across a year boundary.    *)
(***************************************************************************)
MaxMonth == 13

ResolverDays == {"01", "05", "20", "31"}

ResolverTokens ==
    { Pad2(m) \o "/" \o d : m \in 0..MaxMonth, d \in ResolverDays }

ResolverPeriods ==
    { <<None, None>>,
      <<Some("2020-12-15"), None>>,
      <<None, Some("2021-01-14")>>,
      <<Some(""), Some("2021-01-14")>>,
      <<Some("2020-12-15"), Some("2021-01-14")>>,
      <<Some("2021-03-01"), Some("2021-03-31")>>,
      <<Some("2020-06-15"), Some("2021-06-14")>>,
      <<Some("2019-11-01"), Some("2021-02-01")>> }

\* a direct call convert_mm_dd_to_full_date(mm_dd, period_from, period_to)
ResolverInit ==
    /\ text = ""
    /\ mm_dd \in ResolverTokens
    /\ \E p \in ResolverPeriods : period_from = p[1] /\ period_to = p[2]
    /\ pc = "resolve_call"
    /\ Fresh

\* lines 205-234
Resolve ==
    /\ pc = "resolve_call"
    /\ resolved' = Some(ConvertMmDdToFullDate(mm_dd, period_from, period_to))
    /\ pc' = "resolve_done"
    /\ UNCHANGED <<text, period_from, period_to, lines, i, metadata, txState,
                   mm_dd>>

ResolverNext == Resolve

ResolverSpec == ResolverInit /\ [][ResolverNext]_vars

(***************************************************************************)
(* main, lines 282-287, for one statement: the metadata scan, then the     *)
(* transaction scan with the period the metadata scan found.               *)
(***************************************************************************)
CallExtractTransactions ==
    /\ pc = "meta_done"
    /\ period_from' = metadata.period_from
    /\ period_to' = metadata.period_to
    /\ pc' = "tx_call"
    /\ UNCHANGED <<text, lines, i, metadata, txState, mm_dd, resolved>>

MainNext ==
    \/ MetaEnter
    \/ MetaLine
    \/ MetaReturn
    \/ CallExtractTransactions
    \/ TxEnter
    \/ SeekBookingDate
    \/ SeekSkip
    \/ SkipBlank
    \/ AbandonBlock
    \/ TakeValueDate
    \/ BodyEnd
    \/ BodyAmount
    \/ BodyText
    \/ SaveTransaction
    \/ TxReturn

(***************************************************************************)
(* Inputs of main: the statement of the end-to-end scenario. Filler lines  *)
(* (none of them a date, a money token or a label) may stand before the    *)
(* period line, before the balance label, between the label and the        *)
(* balance, and before the transaction block; a blank line may separate    *)
(* the two dates; the text ends after the block or goes on with a trailer. *)
(***************************************************************************)
MaxPad == 2

Pad(n) == [q \in 1..n |-> Filler(q)]

ScenarioTrailers ==
    { <<>>,
      <<"New balance", "1,154.00">>,
      <<"Statement Page", "Page 2">>,
      <<"", "01/14">> }

ScenarioLines(pre, g1, g2, g3, blank, trailer) ==
    Pad(pre) \o <<"Account statement from 15.12.2020 to 14.01.2021">>
        \o Pad(g1) \o <<"Previous balance">>
        \o Pad(g2) \o <<"1,200.00">>
        \o Pad(g3) \o <<"12/16">> \o [q \in 1..blank |-> ""]
        \o <<"12/16", "Card payment", "- 45.00">> \o trailer

ScenarioTexts ==
    { Join(ScenarioLines(pre, g1, g2, g3, blank, trailer), "\n") :
        pre \in 0..MaxPad, g1 \in 0..MaxPad, g2 \in 0..2, g3 \in 0..MaxPad,
        blank \in 0..1, trailer \in ScenarioTrailers }

MainInit ==
    /\ text \in ScenarioTexts
    /\ period_from = None
    /\ period_to = None
    /\ pc = "meta_call"
    /\ mm_dd = ""
    /\ Fresh

MainSpec == MainInit /\ [][MainNext]_vars

(***************************************************************************)
(* Inputs of the transaction scanner: texts made of at most MaxBlocks      *)
(* blocks, one after the other, each of one of these shapes: a well-formed *)
(* block (date, date, text, amount); one with blank lines and with text    *)
(* after the amount; a booking date without a value date; a block without  *)
(* an amount; a block ended by a marker line that is followed by stray     *)
(* text and a stray money line; a date line on its own.                    *)
(***************************************************************************)
MaxBlocks == 3

BlockShapes ==
    { <<"D", "D", "T", "M">>,
      <<"D", "B", "D", "T", "B", "M", "T">>,
      <<"D", "T">>,
      <<"D", "D", "T">>,
      <<"D", "D", "T", "M", "K", "T", "M">>,
      <<"D">> }

RECURSIVE Concat(_)
Concat(ss) == IF ss = <<>> THEN <<>> ELSE Head(ss) \o Concat(Tail(ss))

BlockTexts ==
    { TextOfKinds(Concat(shapes)) :
        shapes \in UNION { [1..n -> BlockShapes] : n \in 0..MaxBlocks } }

BlocksInit ==
    /\ text \in BlockTexts
    /\ \E p \in TxPeriods : period_from = p[1] /\ period_to = p[2]
    /\ pc = "tx_call"
    /\ mm_dd = ""
    /\ Fresh

BlocksSpec == BlocksInit /\ [][TxNext]_vars

(***************************************************************************)
(* Inputs of main for the classification of lines: a statement in which    *)
(* one candidate line stands after the "Previous balance" label, after the *)
(* "New balance" label and in the body of a transaction block. The         *)
(* candidates are all strings of at most MaxTokenLen characters over a     *)
(* digit, the comma, the point, the minus sign and the space.              *)
(***************************************************************************)
MaxTokenLen == 5

TokenChars == {"1", ",", ".", "-", " "}

RECURSIVE StringOf(_)
StringOf(cs) == IF cs = <<>> THEN "" ELSE Head(cs) \o StringOf(Tail(cs))

Candidates ==
    { StringOf(cs) : cs \in UNION { [1..n -> TokenChars] : n \in 0..MaxTokenLen } }

TokenLines(cand) ==
    <<"Previous balance", cand, "New balance", cand,
      "12/16", "", "12/16", "Card payment", cand, "01/14">>

TokenTexts == { Join(TokenLines(cand), "\n") : cand \in Candidates }

TokenInit ==
    /\ text \in TokenTexts
    /\ period_from = None
    /\ period_to = None
    /\ pc = "meta_call"
    /\ mm_dd = ""
    /\ Fresh

TokenSpec == TokenInit /\ [][MainNext]_vars

(***************************************************************************)
(* The statement's vocabulary, written without the scanner's operators     *)
(***************************************************************************)
\* a line of the form MM/DD: two digits, a slash, two digits
LooksMMDD(line) ==
    /\ Len(line) = 5
    /\ \A k \in {1, 2, 4, 5} : Char(line, k) \in Digits
    /\ Char(line, 3) = "/"

\* a money token: optional sign, optional space, digits and commas, a point
\* and two decimals
LooksMoney(line) ==
    /\ Len(line) >= 4
    /\ Char(line, Len(line) - 2) = "."
    /\ Char(line, Len(line) - 1) \in Digits
    /\ Char(line, Len(line)) \in Digits
    /\ LET head == SubSeq(line, 1, Len(line) - 3)
           unsigned == IF Char(head, 1) \in {"+", "-"} THEN Tail(head)
                       ELSE head
           body == LStrip(unsigned)
       IN  /\ body # ""
           /\ \A k \in 1..Len(body) : Char(body, k) \in Digits \cup {","}

MarkerNames ==
    {"Statement Page", "Branch number", "New balance", "Important notes",
     "German bank code"}

\* 0-based access to the stripped lines
LineAt(k) == lines[k + 1]

\* the index of the line that ends the block whose value date is line v:
\* the next MM/DD line or marker line, or the end of the text
BlockEnd(v) ==
    SetMin({ k \in (v + 1)..(Len(lines) - 1) :
                LooksMMDD(LineAt(k)) \/ LineAt(k) \in MarkerNames }
           \cup {Len(lines)})

\* the lines of that block
BlockBody(v) == (v + 1)..(BlockEnd(v) - 1)
MoneyLinesOf(v) == { k \in BlockBody(v) : LooksMoney(LineAt(k)) }
TextLinesOf(v) ==
    { k \in BlockBody(v) : LineAt(k) # "" /\ ~LooksMoney(LineAt(k)) }

\* the lines a..e-1 that are neither blank nor money tokens, in line order,
\* with one space between them
RECURSIVE JoinedText(_, _)
JoinedText(a, e) ==
    IF a >= e THEN ""
    ELSE LET rest == JoinedText(a + 1, e)
             line == LineAt(a)
         IN  IF line = "" \/ LooksMoney(line) THEN rest
             ELSE IF rest = "" THEN line
             ELSE line \o " " \o rest

\* the place among the transactions of the one made from block n
KeptIndex(n) == Cardinality({ m \in 1..n : blocks[m].kept })

IsKept(r) == r.kept
KeptBlocks == SelectSeq(blocks, IsKept)
\* blocks whose body has been read to its end
IsSaved(r) == r.end >= 0
SavedBlocks == SelectSeq(blocks, IsSaved)

(***************************************************************************)
(* C1                                                                      *)
(***************************************************************************)
\* C1: every returned transaction has a non-empty description, taken from a
\* non-blank non-money line of its block, and an amount that is the
\* stripped text of a money-token line lying between its value-date line
\* and the line that ended its block; one transaction per block that had
\* both.
C1_EmittedHaveDescriptionAndAmount ==
    /\ Len(transactions) = Len(KeptBlocks)
    /\ \A n \in 1..Len(transactions) :
        LET t == transactions[n]
            r == KeptBlocks[n]
        IN  /\ t.description # ""
            /\ \E k \in MoneyLinesOf(r.v) : t.amount = LineAt(k)
            /\ \E k \in TextLinesOf(r.v) : Contains(t.description, LineAt(k))
            /\ LooksMMDD(LineAt(r.b)) /\ LooksMMDD(LineAt(r.v))

C1_Witness ==
    /\ pc = "tx_done"
    /\ Len(transactions) = 1
    /\ Len(SavedBlocks) = 2
    /\ transactions[1].description # ""
    /\ LooksMoney(transactions[1].amount)

(***************************************************************************)
(* C2                                                                      *)
(***************************************************************************)
\* C2 (as claimed): the amount of a transaction is the first money-token
\* line of its block, in line order.
C2_AmountIsFirstMoneyLine ==
    \A n \in 1..Len(transactions) :
        LET r == KeptBlocks[n] IN
        MoneyLinesOf(r.v) # {} =>
            transactions[n].amount = LineAt(SetMin(MoneyLinesOf(r.v)))

(***************************************************************************)
(* C4                                                                      *)
(***************************************************************************)
PeriodMissing == period_from = None \/ period_to = None

\* C4: with period_from or period_to missing, the resolver hands back the
\* MM/DD token it was given, and every transaction carries the stripped
\* text of its booking-date line and of its value-date line.
C4_MissingPeriodKeepsTokens ==
    PeriodMissing =>
        /\ ConvertMmDdToFullDate(booking_date_mm_dd, period_from, period_to)
             = booking_date_mm_dd
        /\ \A n \in 1..Len(transactions) :
            LET t == transactions[n]
                r == KeptBlocks[n]
            IN  /\ t.booking_date = LineAt(r.b)
                /\ t.value_date = LineAt(r.v)
                /\ LooksMMDD(t.booking_date) /\ LooksMMDD(t.value_date)

C4_Witness ==
    /\ pc = "tx_done"
    /\ period_from # None /\ period_to = None
    /\ Len(transactions) = 1
    /\ transactions[1].booking_date # transactions[1].value_date
    /\ LooksMMDD(transactions[1].booking_date)

(***************************************************************************)
(* C8                                                                      *)
(***************************************************************************)
\* C8: a block is emitted exactly when its body has a money-token line and
\* a non-blank line that is not one; a block without either is dropped,
\* and when the dropped block ended at an MM/DD line, that line is the
\* booking date of the next block the scanner reads.
C8_IncompleteBlockDropped ==
    /\ \A n \in 1..Len(blocks) :
        LET r == blocks[n] IN
        r.end >= 0 =>
            /\ r.kept <=> (MoneyLinesOf(r.v) # {} /\ TextLinesOf(r.v) # {})
            /\ r.end = BlockEnd(r.v)
            /\ (r.end < Len(lines) /\ LooksMMDD(LineAt(r.end))) =>
                  IF n < Len(blocks) THEN blocks[n + 1].b = r.end
                  ELSE pc \in {"save", "seek"} /\ i = r.end
    /\ Len(transactions) = Len(KeptBlocks)

C8_Witness ==
    /\ pc = "tx_done"
    /\ Len(blocks) = 2
    /\ blocks[1].end >= 0 /\ ~blocks[1].kept
    /\ MoneyLinesOf(blocks[1].v) = {}
    /\ blocks[2].b = blocks[1].end
    /\ blocks[2].kept
    /\ Len(transactions) = 1

(***************************************************************************)
(* C9                                                                      *)
(***************************************************************************)
NoDateLine == \A k \in 1..Len(lines) : ~LooksMMDD(lines[k])

\* C9: a text none of whose stripped lines is an MM/DD token yields no
\* transaction (and no block is ever started).
C9_NoDateNoTransactions ==
    (pc # "tx_call" /\ NoDateLine) => transactions = <<>> /\ blocks = <<>>

C9_Witness ==
    /\ pc = "tx_done"
    /\ NoDateLine
    /\ Len(lines) = MaxLines
    /\ \E k \in 1..Len(lines) : LooksMoney(lines[k])
    /\ \E k \in 1..Len(lines) : lines[k] # "" /\ ~LooksMoney(lines[k])
    /\ transactions = <<>>

(***************************************************************************)
(* C5                                                                      *)
(***************************************************************************)
PeriodLines == { k \in 0..(Len(lines) - 1) : PeriodSearch(LineAt(k)) # <<>> }

\* C5 (as claimed): the period fields come from the first line, in line
\* order, that matches the period pattern.
C5_PeriodFromFirstMatch ==
    (pc = "meta_done" /\ PeriodLines # {}) =>
        LET m == PeriodSearch(LineAt(SetMin(PeriodLines))) IN
        /\ metadata.period_from = Some(IsoOfDayMonthYear(m[1]))
        /\ metadata.period_to = Some(IsoOfDayMonthYear(m[2]))
        /\ metadata.statement_date = Some(IsoOfDayMonthYear(m[2]))

(***************************************************************************)
(* C6, C7                                                                  *)
(***************************************************************************)
\* line l is followed within the next w lines by a money token
MoneyWithin(l, w) ==
    \E k \in (l + 1)..(l + w) : k < Len(lines) /\ LooksMoney(LineAt(k))

FirstMoneyAfter(l) ==
    LineAt(SetMin({ k \in (l + 1)..(Len(lines) - 1) : LooksMoney(LineAt(k)) }))

\* the label lines of the given phrase among the first n lines that have a
\* money token within w lines
LabelsWithMoney(phrase, n, w) ==
    { l \in 0..(n - 1) :
        /\ Len(LineAt(l)) >= Len(phrase)
        /\ Contains(Lower(LineAt(l)), phrase)
        /\ MoneyWithin(l, w) }

\* the balance a lookahead of w lines gives after the first n lines
BalanceAfter(phrase, n, w) ==
    IF LabelsWithMoney(phrase, n, w) = {} THEN None
    ELSE Some(FirstMoneyAfter(SetMin(LabelsWithMoney(phrase, n, w))))

InMetaScan == pc \in {"meta_loop", "meta_done"}

C7_ClosingBalanceOnce ==
    InMetaScan =>
        metadata.closing_balance = BalanceAfter("new balance", i, 24)

C7_Witness ==
    /\ pc = "meta_done"
    /\ \E l1, l2 \in LabelsWithMoney("new balance", Len(lines), 24) :
        /\ l1 < l2
        /\ Lower(LineAt(l1)) # "new balance"
        /\ FirstMoneyAfter(l1) # FirstMoneyAfter(l2)
        /\ metadata.closing_balance = Some(FirstMoneyAfter(l1))

(***************************************************************************)
(* C3                                                                      *)
(***************************************************************************)
TwoDigits(s) == DigitVal(Char(s, 1)) * 10 + DigitVal(Char(s, 2))

\* the date the year rule gives, composed from the text of its arguments:
\* tok is MM/DD, pf and pt are YYYY-MM-DD
DateByYearRule(tok, pf, pt) ==
    LET year == IF SubSeq(pf, 1, 4) = SubSeq(pt, 1, 4) THEN SubSeq(pf, 1, 4)
                ELSE IF TwoDigits(SubSeq(tok, 1, 2))
                          >= TwoDigits(SubSeq(pf, 6, 7))
                     THEN SubSeq(pf, 1, 4)
                     ELSE SubSeq(pt, 1, 4)
    IN  year \o "-" \o SubSeq(tok, 1, 2) \o "-" \o SubSeq(tok, 4, 5)

CrossingPeriod ==
    period_from = Some("2020-12-15") /\ period_to = Some("2021-01-14")

\* C3: with both period bounds present the resolved date keeps the month
\* and day of the token and takes the common year of the period, or else
\* period_from's year for a month >= period_from's month and period_to's
\* year for a smaller month; 12/20 and 01/05 in 2020-12-15..2021-01-14
\* give 2020-12-20 and 2021-01-05.
C3_YearRule ==
    (pc = "resolve_done" /\ Truthy(period_from) /\ Truthy(period_to)) =>
        /\ resolved = Some(DateByYearRule(mm_dd, period_from[1], period_to[1]))
        /\ (CrossingPeriod /\ mm_dd = "12/20") => resolved = Some("2020-12-20")
        /\ (CrossingPeriod /\ mm_dd = "01/05") => resolved = Some("2021-01-05")

C3_Witness ==
    /\ pc = "resolve_done"
    /\ CrossingPeriod
    /\ mm_dd = "12/20"
    /\ resolved = Some("2020-12-20")

(***************************************************************************)
(* C10                                                                     *)
(***************************************************************************)
\* C10: for the scenario statement, main obtains the period 2020-12-15 to
\* 2021-01-14, the opening balance 1,200.00 and exactly one transaction,
\* 2020-12-16 / 2020-12-16 / Card payment / - 45.00.
C10_EndToEnd ==
    pc = "tx_done" =>
        /\ metadata.period_from = Some("2020-12-15")
        /\ metadata.period_to = Some("2021-01-14")
        /\ metadata.opening_balance = Some("1,200.00")
        /\ transactions = << [booking_date |-> "2020-12-16",
                              value_date |-> "2020-12-16",
                              description |-> "Card payment",
                              amount |-> "- 45.00"] >>

C10_Witness ==
    /\ pc = "tx_done"
    /\ \E l \in 0..(Len(lines) - 4) :
        LineAt(l) = "Previous balance" /\ LineAt(l + 3) = "1,200.00"
    /\ metadata.opening_balance = Some("1,200.00")
    /\ Len(transactions) = 1
    /\ transactions[1].amount = "- 45.00"

(***************************************************************************)
(* C11                                                                     *)
(***************************************************************************)
\* the work left: the lines still ahead of the cursor, then the steps that
\* remain at the cursor's line
C11_WorkLeft ==
    4 * (Len(lines) - i)
      + (CASE pc = "body" -> 3
           [] pc \in {"value", "save"} -> 2
           [] pc = "seek" -> 1
           [] OTHER -> 0)

\* what one step of the scan does to the cursor: it never moves back; a step
\* of the outer loop at a line moves it one line on; an iteration that read
\* a booking date hands back a cursor beyond that line, whether the block
\* was abandoned or read to a date line, a marker line or the end; the scan
\* returns only with the cursor at the end; and every step uses up work
C11_CursorStep ==
    /\ i' >= i
    /\ (pc = "seek" /\ i < Len(lines)) => (i' = i + 1 /\ pc' # "tx_done")
    /\ (pc \in {"value", "save"} /\ pc' = "seek") => i' > LastBlock.b
    /\ (pc = "seek" /\ i >= Len(lines)) => pc' = "tx_done"
    /\ pc' = "tx_done" => i' = Len(lines')
    /\ pc # "tx_call" => (C11_WorkLeft' < C11_WorkLeft /\ C11_WorkLeft' >= 0)

\* the cursor stays within the lines, so that no step reads a line that is
\* not there, and the scan returns with the cursor at the end
C11_CursorInRange ==
    /\ i \in 0..Len(lines)
    /\ pc \in {"tx_call", "seek", "value", "body", "save", "tx_done"}
    /\ pc = "tx_done" => i = Len(lines)

\* C11: extract_transactions terminates on every text: the cursor stays
\* within the lines and never moves backwards, every iteration of the outer
\* loop advances it by at least one line, every step uses up part of a
\* finite amount of work, and the scan returns exactly when the cursor has
\* reached the end of the lines.
C11_ScanTerminates == []C11_CursorInRange /\ [][C11_CursorStep]_vars

\* a finished scan that abandoned a block and read another one up to a date
\* line
C11_Witness ==
    /\ pc = "tx_done"
    /\ i = Len(lines)
    /\ \E n \in 1..Len(blocks) : blocks[n].v = -1
    /\ \E n \in 1..Len(blocks) :
          /\ blocks[n].end >= 0
          /\ blocks[n].end < Len(lines)
          /\ LooksMMDD(LineAt(blocks[n].end))

(***************************************************************************)
(* C12                                                                     *)
(***************************************************************************)
C12_DaysIn(year, month) ==
    CASE month \in {1, 3, 5, 7, 8, 10, 12} -> 31
      [] month \in {4, 6, 9, 11} -> 30
      [] OTHER -> IF year % 4 = 0 /\ (year % 100 # 0 \/ year % 400 = 0)
                  THEN 29 ELSE 28

\* YYYY-MM-DD naming a day of the calendar
C12_IsCalendarDate(s) ==
    /\ Len(s) = 10
    /\ Char(s, 5) = "-" /\ Char(s, 8) = "-"
    /\ \A k \in {1, 2, 3, 4, 6, 7, 9, 10} : Char(s, k) \in Digits
    /\ LET year  == IntOfDigits(SubSeq(s, 1, 4), 0)
           month == IntOfDigits(SubSeq(s, 6, 7), 0)
           day   == IntOfDigits(SubSeq(s, 9, 10), 0)
       IN  /\ month \in 1..12
           /\ day \in 1..C12_DaysIn(year, month)

\* C12 (as claimed): with both period bounds present, the date resolved for
\* any token of two digits, a slash and two digits is a calendar date in
\* the form YYYY-MM-DD: month 01..12 and a day that the month has.
C12_ResolvedIsCalendarDate ==
    (pc = "resolve_done" /\ Truthy(period_from) /\ Truthy(period_to)
        /\ LooksMMDD(mm_dd))
      => C12_IsCalendarDate(resolved[1])

(***************************************************************************)
(* C14                                                                     *)
(***************************************************************************)
\* the first non-blank line after line b, or the end of the text
C14_NextNonBlank(b) ==
    SetMin({ k \in (b + 1)..(Len(lines) - 1) : LineAt(k) # "" }
           \cup {Len(lines)})

\* block n has been abandoned: it has no value date and is not in progress
C14_Abandoned(n) ==
    blocks[n].v = -1 /\ (n < Len(blocks) \/ pc # "value")

\* every block takes as value date the first non-blank line after its
\* booking date, when that line is MM/DD; a block whose first non-blank
\* line is anything else, or is missing, is abandoned with the cursor not
\* before that line, is never saved, and its booking-date line is neither
\* the booking date nor the value date of another block
C14_ValueDateOrAbandon ==
    /\ \A n \in 1..Len(blocks) :
        LET r == blocks[n]
            x == C14_NextNonBlank(r.b)
        IN  /\ r.v >= 0 => (r.v = x /\ LooksMMDD(LineAt(x)))
            /\ C14_Abandoned(n) =>
                 /\ x < Len(lines) => ~LooksMMDD(LineAt(x))
                 /\ i >= x
                 /\ r.end = -1 /\ ~r.kept
                 /\ \A m \in 1..Len(blocks) :
                      m # n => (blocks[m].b # r.b /\ blocks[m].v # r.b)
    /\ Len(transactions) = Len(KeptBlocks)

\* the step that abandons a block leaves the cursor on the line that failed
\* to be a value date and emits nothing; the outer loop then examines that
\* very line and, as it is no date, steps over it
C14_ResumeStep ==
    /\ (pc = "value" /\ pc' = "seek") =>
          /\ i' = i
          /\ i = C14_NextNonBlank(LastBlock.b)
          /\ transactions' = transactions
          /\ blocks' = blocks
    /\ (pc = "value" /\ pc' = "value") =>
          (LineAt(i) = "" /\ i' = i + 1)
    /\ (pc = "seek" /\ i < Len(lines) /\ ~LooksMMDD(LineAt(i))) =>
          (pc' = "seek" /\ i' = i + 1 /\ blocks' = blocks)

\* C14: after a booking-date line blank lines are skipped; when the next
\* non-blank line is not MM/DD, or the text ends, the block is abandoned,
\* no transaction uses its booking-date line, and the scan resumes in the
\* outer loop at the non-matching line itself.
C14_AbandonedBlockResumes ==
    []C14_ValueDateOrAbandon /\ [][C14_ResumeStep]_vars

\* a finished scan that skipped a blank line after a booking date, met a
\* line that is no date, and abandoned the block
C14_Witness ==
    /\ pc = "tx_done"
    /\ \E n \in 1..Len(blocks) :
          /\ blocks[n].v = -1
          /\ C14_NextNonBlank(blocks[n].b) > blocks[n].b + 1
          /\ C14_NextNonBlank(blocks[n].b) < Len(lines)
    /\ \E n \in 1..Len(blocks) :
          blocks[n].v = -1 /\ C14_NextNonBlank(blocks[n].b) = Len(lines)

(***************************************************************************)
(* C15                                                                     *)
(***************************************************************************)
\* a line that joins a description: neither blank, nor a date, a money
\* token or a marker
C15_IsText(line) ==
    /\ line # ""
    /\ ~LooksMMDD(line)
    /\ ~LooksMoney(line)
    /\ line \notin MarkerNames

\* the text is k blocks of four lines: date, date, text, amount
C15_WellFormed(k) ==
    /\ Len(lines) = 4 * k
    /\ \A q \in 0..(k - 1) :
        /\ LooksMMDD(LineAt(4 * q))
        /\ LooksMMDD(LineAt(4 * q + 1))
        /\ C15_IsText(LineAt(4 * q + 2))
        /\ LooksMoney(LineAt(4 * q + 3))

\* of k well-formed consecutive blocks the scan returns k transactions, the
\* n-th one made of the four lines of the n-th block
C15_OnePerBlock ==
    \A k \in 1..MaxBlocks :
        (pc = "tx_done" /\ C15_WellFormed(k)) =>
            /\ Len(transactions) = k
            /\ Len(blocks) = k
            /\ \A n \in 1..k :
                LET t == transactions[n]
                    q == 4 * (n - 1)
                IN  /\ blocks[n].b = q /\ blocks[n].v = q + 1
                    /\ blocks[n].end = q + 4
                    /\ t.description = LineAt(q + 2)
                    /\ t.amount = LineAt(q + 3)
                    /\ PeriodMissing =>
                         /\ t.booking_date = LineAt(q)
                         /\ t.value_date = LineAt(q + 1)
                    /\ ~PeriodMissing =>
                         /\ t.booking_date = DateByYearRule(LineAt(q),
                                period_from[1], period_to[1])
                         /\ t.value_date = DateByYearRule(LineAt(q + 1),
                                period_from[1], period_to[1])

\* a body that ends at a date line leaves the cursor on that line, saving
\* the block leaves it there too, and the outer loop then takes that line
\* as the booking date of the next block
C15_DateLineStep ==
    /\ (pc \in {"body", "save"} /\ pc' \in {"save", "seek"} /\ pc' # pc
          /\ i < Len(lines) /\ LooksMMDD(LineAt(i))) => i' = i
    /\ (pc = "seek" /\ i < Len(lines) /\ LooksMMDD(LineAt(i))) =>
          /\ pc' = "value"
          /\ booking_date_mm_dd' = LineAt(i)
          /\ Len(blocks') = Len(blocks) + 1
          /\ blocks'[Len(blocks')].b = i

\* C15: the MM/DD line that ends a body is not consumed: the next step of
\* the outer loop examines it and takes it as the booking date of the next
\* block, so that a text of k well-formed consecutive blocks yields exactly
\* k transactions, one per block, in order.
C15_ConsecutiveBlocks == []C15_OnePerBlock /\ [][C15_DateLineStep]_vars

\* three well-formed blocks in a row, three transactions
C15_Witness ==
    /\ pc = "tx_done"
    /\ C15_WellFormed(3)
    /\ Len(transactions) = 3
    /\ blocks[2].b = blocks[1].end
    /\ blocks[3].b = blocks[2].end

(***************************************************************************)
(* C16                                                                     *)
(***************************************************************************)
\* the first MM/DD line at or after line e, or the end of the text
C16_NextDateLine(e) ==
    SetMin({ k \in e..(Len(lines) - 1) : LooksMMDD(LineAt(k)) }
           \cup {Len(lines)})

\* the body of the saved block r runs into a marker line before any date
C16_EndedByMarker(r) ==
    /\ r.end >= 0
    /\ BlockEnd(r.v) < Len(lines)
    /\ LineAt(BlockEnd(r.v)) \in MarkerNames

\* C16: a body that meets a line equal to one of the five markers ends
\* there: the block is emitted when it already has a description and an
\* amount, both taken from the lines before the marker, and neither the
\* marker line nor any line between it and the next MM/DD line belongs to
\* a block; the next block starts at that MM/DD line.
C16_MarkerEndsBlock ==
    \A n \in 1..Len(blocks) :
        LET r == blocks[n]
            d == C16_NextDateLine(r.end)
        IN  C16_EndedByMarker(r) =>
              /\ r.end = BlockEnd(r.v)
              /\ r.kept <=> (\E k \in (r.v + 1)..(r.end - 1) :
                                 LooksMoney(LineAt(k)))
                            /\ JoinedText(r.v + 1, r.end) # ""
              /\ r.kept =>
                   LET t == transactions[KeptIndex(n)]
                   IN  /\ t.description = JoinedText(r.v + 1, r.end)
                       /\ \E k \in (r.v + 1)..(r.end - 1) :
                             LooksMoney(LineAt(k)) /\ t.amount = LineAt(k)
              /\ \A m \in 1..Len(blocks) :
                   /\ blocks[m].b \notin r.end..(d - 1)
                   /\ blocks[m].v \notin r.end..(d - 1)
                   /\ blocks[m].a \notin r.end..(d - 1)
              /\ IF n < Len(blocks) THEN blocks[n + 1].b = d
                 ELSE pc \in {"save", "seek", "tx_done"} /\ i >= r.end /\ i <= d
              /\ Len(transactions) = Len(KeptBlocks)

\* a block ended by a marker is emitted; a text line and a money line stand
\* between the marker and the next booking date, and the block that starts
\* there is emitted too
C16_Witness ==
    /\ pc = "tx_done"
    /\ \E n \in 1..(Len(blocks) - 1) :
        LET r == blocks[n] IN
        /\ C16_EndedByMarker(r)
        /\ r.kept /\ blocks[n + 1].kept
        /\ \E k \in (r.end + 1)..(blocks[n + 1].b - 1) : LooksMoney(LineAt(k))
        /\ \E k \in (r.end + 1)..(blocks[n + 1].b - 1) :
              LineAt(k) # "" /\ ~LooksMoney(LineAt(k))

(***************************************************************************)
(* C17                                                                     *)
(***************************************************************************)
\* C17: the description of a transaction is the join, with single spaces
\* and in line order, of exactly the lines of its block, from the line
\* after the value date up to the date line, marker line or end of text
\* that ends it, that are neither blank nor money tokens; lines after the
\* amount line are part of it.
C17_DescriptionIsJoinedText ==
    /\ Len(transactions) = Len(KeptBlocks)
    /\ \A n \in 1..Len(transactions) :
        LET r == KeptBlocks[n]
            t == transactions[n]
        IN  /\ t.description = JoinedText(r.v + 1, BlockEnd(r.v))
            /\ \A k \in TextLinesOf(r.v) : Contains(t.description, LineAt(k))
            /\ \A k \in MoneyLinesOf(r.v) : ~Contains(t.description, LineAt(k))

\* a transaction whose body has a blank line, a text line before the amount
\* and a text line after it
C17_Witness ==
    /\ pc = "tx_done"
    /\ \E n \in 1..Len(transactions) :
        LET r == KeptBlocks[n] IN
        /\ \E k \in BlockBody(r.v) : LineAt(k) = ""
        /\ \E k1, k2 \in TextLinesOf(r.v) :
              \E m \in MoneyLinesOf(r.v) : k1 < m /\ m < k2
        /\ Len(transactions[n].description) > Len(LineAt(r.v + 1))

(***************************************************************************)
(* C18                                                                     *)
(***************************************************************************)
\* no line of the text has the phrase in it, in any case of letters
C18_PhraseAbsent(phrase) ==
    \A k \in 0..(Len(lines) - 1) :
        Len(LineAt(k)) >= Len(phrase) => ~Contains(Lower(LineAt(k)), phrase)

\* C18: in every result of extract_statement_metadata the statement date is
\* the end of the period, and period_from, period_to and statement_date
\* are all null or all set; the result always has its six fields, each
\* null or a string, and a field whose marker is not in the text is null.
C18_PeriodFieldsTogether ==
    InMetaScan =>
        /\ metadata.statement_date = metadata.period_to
        /\ (metadata.period_from = None) <=> (metadata.period_to = None)
        /\ (metadata.period_to = None) <=> (metadata.statement_date = None)
        /\ DOMAIN metadata = {"year", "statement_date", "period_from",
                              "period_to", "opening_balance",
                              "closing_balance"}
        /\ \A f \in DOMAIN metadata :
              metadata[f] = None \/ (Len(metadata[f]) = 1 /\ metadata[f][1] # "")
        /\ C18_PhraseAbsent("from") =>
              /\ metadata.period_from = None
              /\ metadata.year = None
        /\ C18_PhraseAbsent("previous balance") =>
              metadata.opening_balance = None
        /\ C18_PhraseAbsent("new balance") => metadata.closing_balance = None

\* a result with a period whose two ends differ, an opening balance, and no
\* closing balance because the text has no "new balance" line
C18_Witness ==
    /\ pc = "meta_done"
    /\ metadata.period_to # None
    /\ metadata.period_from # metadata.period_to
    /\ metadata.statement_date = metadata.period_to
    /\ metadata.opening_balance # None
    /\ C18_PhraseAbsent("new balance")
    /\ metadata.closing_balance = None

(***************************************************************************)
(* C19                                                                     *)
(***************************************************************************)
\* digits in groups with single commas between the groups: the first and
\* the last character are digits and no two commas are adjacent
C19_DigitGroups(body) ==
    /\ body # ""
    /\ \A k \in 1..Len(body) : Char(body, k) \in Digits \cup {","}
    /\ Char(body, 1) \in Digits
    /\ Char(body, Len(body)) \in Digits
    /\ \A k \in 1..(Len(body) - 1) :
          ~(Char(body, k) = "," /\ Char(body, k + 1) = ",")

\* optional sign, optional space, digit groups, a point, two decimals
C19_WellFormedMoney(line) ==
    /\ Len(line) >= 4
    /\ Char(line, Len(line) - 2) = "."
    /\ Char(line, Len(line) - 1) \in Digits
    /\ Char(line, Len(line)) \in Digits
    /\ LET head == SubSeq(line, 1, Len(line) - 3)
           unsigned == IF head # "" /\ Char(head, 1) \in {"+", "-"}
                       THEN Tail(head) ELSE head
       IN  C19_DigitGroups(LStrip(unsigned))

\* C19 (as claimed): a line is taken as a money token, by the transaction
\* scan and by either balance lookahead, only if it is an optional sign,
\* optional space, at least one digit in comma-separated groups, a point
\* and two decimals; a line with no digit before the point or with a
\* leading, trailing or doubled comma is never taken.
C19_MoneyTokensWellFormed ==
    /\ amount # None => C19_WellFormedMoney(amount[1])
    /\ \A n \in 1..Len(transactions) :
          C19_WellFormedMoney(transactions[n].amount)
    /\ metadata.opening_balance # None =>
          C19_WellFormedMoney(metadata.opening_balance[1])
    /\ metadata.closing_balance # None =>
          C19_WellFormedMoney(metadata.closing_balance[1])

(***************************************************************************)
(* C20                                                                     *)
(***************************************************************************)
C20_DateLines == { k \in 0..(Len(lines) - 1) : LooksMMDD(LineAt(k)) }

\* the blocks that were emitted, by their place among all blocks
C20_Emitted == { n \in 1..Len(blocks) : blocks[n].kept }

\* C20: every emitted transaction uses two distinct MM/DD lines, its
\* booking-date line and, after blank lines only, its value-date line; no
\* MM/DD line is used by two transactions; hence the transactions are at
\* most half as many as the MM/DD lines of the text.
C20_TwoDateLinesEach ==
    /\ Len(transactions) = Cardinality(C20_Emitted)
    /\ \A n \in C20_Emitted :
        LET r == blocks[n] IN
        /\ r.b \in C20_DateLines /\ r.v \in C20_DateLines
        /\ r.b < r.v
        /\ \A k \in (r.b + 1)..(r.v - 1) : LineAt(k) = ""
    /\ \A n, m \in C20_Emitted :
        n # m => {blocks[n].b, blocks[n].v} \cap {blocks[m].b, blocks[m].v} = {}
    /\ 2 * Len(transactions) <= Cardinality(C20_DateLines)

\* two transactions from a text with five MM/DD lines, one of them with a
\* blank line between its two dates
C20_Witness ==
    /\ pc = "tx_done"
    /\ Len(transactions) = 2
    /\ Cardinality(C20_DateLines) = 5
    /\ \E n \in C20_Emitted : blocks[n].v > blocks[n].b + 1

(***************************************************************************)
(* C21                                                                     *)
(***************************************************************************)
\* the lines that went into the transaction made from the saved block r:
\* its two date lines, its description lines and its amount line
C21_LinesOf(r) == {r.b, r.v, r.a} \cup TextLinesOf(r.v)

\* the n-th transaction is made of the lines of the n-th emitted block;
\* within it the booking date comes before the value date and the value
\* date before every description and amount line; and all lines of one
\* transaction come before all lines of the next
C21_BlocksInOrder ==
    /\ Len(transactions) = Len(KeptBlocks)
    /\ \A n \in 1..Len(transactions) :
        LET r == KeptBlocks[n]
            t == transactions[n]
        IN  /\ r.b >= 0 /\ r.b < r.v
            /\ r.a \in MoneyLinesOf(r.v)
            /\ \A k \in TextLinesOf(r.v) \cup {r.a} :
                  r.v < k /\ k < BlockEnd(r.v)
            /\ t.amount = LineAt(r.a)
            /\ t.description = JoinedText(r.v + 1, BlockEnd(r.v))
            /\ PeriodMissing =>
                 (t.booking_date = LineAt(r.b) /\ t.value_date = LineAt(r.v))
    /\ \A n \in 1..(Len(transactions) - 1) :
        \A k1 \in C21_LinesOf(KeptBlocks[n]) :
            \A k2 \in C21_LinesOf(KeptBlocks[n + 1]) : k1 < k2

\* the result only grows at its end, by the block just read
C21_AppendStep ==
    \/ transactions' = transactions
    \/ /\ Len(transactions') = Len(transactions) + 1
       /\ SubSeq(transactions', 1, Len(transactions)) = transactions
       /\ pc = "save"
       /\ \A n \in 1..(Len(blocks) - 1) : blocks[n].b < LastBlock.b
    \/ pc = "tx_call"

\* C21: the transactions are returned in source order and their blocks are
\* disjoint: every line that went into a transaction has a smaller index
\* than every line that went into the next one, and within a transaction
\* the booking-date line precedes the value-date line, which precedes
\* every description and amount line.
C21_SourceOrder == []C21_BlocksInOrder /\ [][C21_AppendStep]_vars

\* three transactions; between two of them lie lines that belong to
\* neither, and one has a description line after its amount line
C21_Witness ==
    /\ pc = "tx_done"
    /\ Len(transactions) = 3
    /\ \E n \in 1..2 :
          KeptBlocks[n + 1].b > BlockEnd(KeptBlocks[n].v)
    /\ \E n \in 1..3 :
          \E k \in TextLinesOf(KeptBlocks[n].v) : k > KeptBlocks[n].a
    /\ transactions[1].description # transactions[2].description

====
